---- MODULE Spec2Model ----
(***************************************************************************)
(* Model of the simple_rest_rbac Caddy middleware                          *)
(* (marmelab/caddy-rbac-rest-middleware, package plugin).                  *)
(*                                                                         *)
(* Go strings are sequences of one-character strings, so that the string   *)
(* functions the code relies on (HasPrefix, HasSuffix, Trim, Split,        *)
(* TrimSpace, slicing) are computed and not assumed.                       *)
(***************************************************************************)
EXTENDS Integers, Sequences, FiniteSets, TLC

VARIABLES
    roles,      \* Middleware.roles: the loaded RoleDefinitions (or the nil map)
    Role,       \* Middleware.Role: the configured role, possibly a placeholder
    phase,      \* where the module is in Caddy's lifecycle
    request,    \* the request handed to the last ServeHTTP call
    response,   \* what that ServeHTTP call did
    args,       \* arguments of a direct call of one of the pure functions
    ret,        \* its return value
    pc,         \* "call" before the direct call has run, "done" after
    loaded,     \* what the last Provision call returned, and the file it read
    heap,       \* the map objects allocated so far, by address 1..Len(heap)
    rolesRef,   \* the address m.roles holds (a Go map value is a reference)
    loader,     \* a Provision call in progress, statement by statement
    inflight    \* the ServeHTTP calls in progress, each on its goroutine

vars == <<roles, Role, phase, request, response, args, ret, pc, loaded,
          heap, rolesRef, loader, inflight>>

----------------------------------------------------------------------------
(* Notation: a string literal as a sequence of characters.                 *)

Str(s) == [i \in 1..Len(s) |-> SubSeq(s, i, i)]

Star == Str("*")

(* All strings over alphabet of length at most n.                          *)
RECURSIVE StringsUpTo(_, _)
StringsUpTo(alphabet, n) ==
    IF n = 0 THEN {<<>>}
    ELSE LET shorter == StringsUpTo(alphabet, n - 1)
         IN  shorter \cup {Append(s, c) : s \in shorter, c \in alphabet}

----------------------------------------------------------------------------
(* The Go standard library functions the code calls.                       *)

\* strings.HasPrefix(s, prefix)
HasPrefix(s, prefix) ==
    /\ Len(s) >= Len(prefix)
    /\ SubSeq(s, 1, Len(prefix)) = prefix

\* strings.HasSuffix(s, suffix)
HasSuffix(s, suffix) ==
    /\ Len(s) >= Len(suffix)
    /\ SubSeq(s, Len(s) - Len(suffix) + 1, Len(s)) = suffix

\* strings.Trim(s, cutset) for a cutset given as a set of characters:
\* every leading and trailing character of the cutset is removed.
RECURSIVE TrimLeft(_, _)
TrimLeft(s, cutset) ==
    IF s # <<>> /\ Head(s) \in cutset THEN TrimLeft(Tail(s), cutset) ELSE s

RECURSIVE TrimRight(_, _)
TrimRight(s, cutset) ==
    IF s # <<>> /\ s[Len(s)] \in cutset
    THEN TrimRight(SubSeq(s, 1, Len(s) - 1), cutset)
    ELSE s

Trim(s, cutset) == TrimRight(TrimLeft(s, cutset), cutset)

\* strings.Split(s, sep) for a one-character separator: the substrings
\* between the separators, empty ones included; Split("", sep) is [""].
RECURSIVE SplitFrom(_, _, _)
SplitFrom(s, sep, current) ==
    IF s = <<>> THEN <<current>>
    ELSE IF Head(s) = sep
         THEN <<current>> \o SplitFrom(Tail(s), sep, <<>>)
         ELSE SplitFrom(Tail(s), sep, Append(current, Head(s)))

Split(s, sep) == SplitFrom(s, sep, <<>>)

\* strings.TrimSpace(s), on the white space the model's strings contain.
WhiteSpace == {" "}

TrimSpace(s) == Trim(s, WhiteSpace)

----------------------------------------------------------------------------
(* can-access.go                                                           *)

\* type ActionType struct { Single *string; Multiple []string }
\* A *string is a sequence of at most one string: <<>> is the nil pointer.
\* A []string is its items and whether the slice is nil.
NilPtr == <<>>

Ptr(v) == <<v>>

NilSlice == [isNil |-> TRUE, items |-> <<>>]

Slice(items) == [isNil |-> FALSE, items |-> items]

\* The three shapes UnmarshalJSON gives an action: a string, a list with at
\* least one string item, and neither.
SingleAction(a) == [Single |-> Ptr(a), Multiple |-> NilSlice]

MultipleAction(items) == [Single |-> NilPtr, Multiple |-> Slice(items)]

NoAction == [Single |-> NilPtr, Multiple |-> NilSlice]

\* type Permission struct { Type string; Action ActionType; Resource string }
Permission(type, action, resource) ==
    [Type |-> type, Action |-> action, Resource |-> resource]

\* A mutant of matchWildcard: every pattern is a prefix pattern.
matchWildcardImplicitPrefix(pattern, resource) ==
    IF pattern = Star THEN TRUE
    ELSE IF pattern = resource THEN TRUE
    ELSE IF HasSuffix(pattern, Star)
         THEN HasPrefix(resource, SubSeq(pattern, 1, Len(pattern) - 1))
         ELSE HasPrefix(resource, pattern)

\* func matchWildcard(pattern, resource string) bool
matchWildcard(pattern, resource) ==
    IF pattern = Star THEN TRUE
    ELSE IF pattern = resource THEN TRUE
    ELSE IF HasSuffix(pattern, Star)
         THEN HasPrefix(resource, SubSeq(pattern, 1, Len(pattern) - 1))
         ELSE FALSE

\* A mutant of matchTarget: a requested action of "" or "*" gets no shortcut.
matchTargetNoShortcut(permission, resource, action) ==
    IF ~matchWildcard(permission.Resource, resource) THEN FALSE
    ELSE IF ~permission.Action.Multiple.isNil
         THEN \E i \in 1..Len(permission.Action.Multiple.items) :
                  \/ permission.Action.Multiple.items[i] = "*"
                  \/ permission.Action.Multiple.items[i] = action
    ELSE IF permission.Action.Single # NilPtr
         THEN permission.Action.Single[1] = "*" \/ permission.Action.Single[1] = action
    ELSE FALSE

\* A mutant of matchTarget: a rule without action identifiers matches every
\* action.
matchTargetEmptyRuleMatches(permission, resource, action) ==
    IF ~matchWildcard(permission.Resource, resource) THEN FALSE
    ELSE IF action = "" \/ action = "*" THEN TRUE
    ELSE IF ~permission.Action.Multiple.isNil
         THEN \E i \in 1..Len(permission.Action.Multiple.items) :
                  \/ permission.Action.Multiple.items[i] = "*"
                  \/ permission.Action.Multiple.items[i] = action
    ELSE IF permission.Action.Single # NilPtr /\ permission.Action.Single[1] # ""
         THEN permission.Action.Single[1] = "*" \/ permission.Action.Single[1] = action
    ELSE TRUE

\* The loop over permission.Action.Multiple of matchTarget, from item i on:
\* TRUE when it reaches its "return true".
RECURSIVE multipleLoop(_, _, _)
multipleLoop(items, i, action) ==
    IF i > Len(items) THEN FALSE
    ELSE IF items[i] = "*" \/ items[i] = action THEN TRUE
    ELSE multipleLoop(items, i + 1, action)

\* func matchTarget(permission Permission, resource, action string) bool
matchTarget(permission, resource, action) ==
    IF ~matchWildcard(permission.Resource, resource) THEN FALSE
    ELSE IF action = "" \/ action = "*" THEN TRUE
    ELSE IF ~permission.Action.Multiple.isNil
         THEN multipleLoop(permission.Action.Multiple.items, 1, action)
    ELSE IF permission.Action.Single # NilPtr
         THEN permission.Action.Single[1] = "*" \/ permission.Action.Single[1] = action
    ELSE FALSE

\* The first loop of canAccessWithPermissions, from rule i on: TRUE when it
\* reaches its "return false".
RECURSIVE denyLoop(_, _, _, _)
denyLoop(permissions, i, action, resource) ==
    IF i > Len(permissions) THEN FALSE
    ELSE IF permissions[i].Type = "deny" /\ matchTarget(permissions[i], resource, action)
         THEN TRUE
         ELSE denyLoop(permissions, i + 1, action, resource)

\* The second loop of canAccessWithPermissions, from rule i on: TRUE when it
\* reaches its "return true".
RECURSIVE allowLoop(_, _, _, _)
allowLoop(permissions, i, action, resource) ==
    IF i > Len(permissions) THEN FALSE
    ELSE IF permissions[i].Type # "deny" /\ matchTarget(permissions[i], resource, action)
         THEN TRUE
         ELSE allowLoop(permissions, i + 1, action, resource)

\* A mutant of canAccessWithPermissions: one pass, the first matching rule
\* decides.
RECURSIVE firstMatchLoop(_, _, _, _)
firstMatchLoop(permissions, i, action, resource) ==
    IF i > Len(permissions) THEN FALSE
    ELSE IF matchTarget(permissions[i], resource, action)
         THEN permissions[i].Type # "deny"
         ELSE firstMatchLoop(permissions, i + 1, action, resource)

canAccessFirstMatch(permissions, action, resource) ==
    firstMatchLoop(permissions, 1, action, resource)

\* A mutant of canAccessWithPermissions: the final return is true.
canAccessDefaultAllow(permissions, action, resource) ==
    IF Len(permissions) = 0 THEN FALSE
    ELSE IF denyLoop(permissions, 1, action, resource) THEN FALSE
    ELSE TRUE

\* A mutant of canAccessWithPermissions: the second loop takes the rules of
\* type "allow" only.
canAccessAllowNamed(permissions, action, resource) ==
    IF Len(permissions) = 0 THEN FALSE
    ELSE IF denyLoop(permissions, 1, action, resource) THEN FALSE
    ELSE \E i \in 1..Len(permissions) :
            permissions[i].Type = "allow" /\ matchTarget(permissions[i], resource, action)

\* func canAccessWithPermissions(permissions []Permission, action, resource string) bool
canAccessWithPermissions(permissions, action, resource) ==
    IF Len(permissions) = 0 THEN FALSE
    ELSE IF denyLoop(permissions, 1, action, resource) THEN FALSE
    ELSE IF allowLoop(permissions, 1, action, resource) THEN TRUE
    ELSE FALSE

----------------------------------------------------------------------------
(* simple-rest-rbac.go: the path convention and the action resolver.       *)

Slash == "/"

\* A mutant of extractResource: the path is split without being trimmed.
extractResourceUntrimmed(path) ==
    LET parts == Split(path, Slash)
    IN  IF Len(parts) > 0 /\ parts[1] # <<>> THEN parts[1] ELSE <<>>

\* func extractResource(path string) string
extractResource(path) ==
    LET parts == Split(Trim(path, {Slash}), Slash)
    IN  IF Len(parts) > 0 /\ parts[1] # <<>> THEN parts[1] ELSE <<>>

\* A mutant of extractRecordID: the last segment is taken for the identifier.
extractRecordIDLast(path) ==
    LET parts == Split(Trim(path, {Slash}), Slash)
    IN  IF Len(parts) > 1 /\ parts[Len(parts)] # <<>> THEN parts[Len(parts)] ELSE <<>>

\* func extractRecordID(path string) string
extractRecordID(path) ==
    LET parts == Split(Trim(path, {Slash}), Slash)
    IN  IF Len(parts) > 1 /\ parts[2] # <<>> THEN parts[2] ELSE <<>>

\* func getActionFromMethod(method string, hasRecordID bool) string
\* (the resolver of the earlier revision of the handler)
getActionFromMethod(method, hasRecordID) ==
    CASE method = "GET" -> IF hasRecordID THEN "show" ELSE "list"
      [] method = "POST" -> "create"
      [] method \in {"PUT", "PATCH"} -> "edit"
      [] method = "DELETE" -> "delete"
      [] OTHER -> ""

\* A mutant of getActionFromRequest: PUT is not a supported method.
getActionFromRequestNoPut(r) ==
    LET recordID == extractRecordID(r.path)
        hasRecordID == recordID # <<>>
    IN  CASE r.method = "GET" -> IF hasRecordID THEN "show" ELSE "list"
          [] r.method = "POST" -> "create"
          [] r.method = "PATCH" -> "edit"
          [] r.method = "DELETE" -> "delete"
          [] OTHER -> ""

\* func getActionFromRequest(r *http.Request) string
getActionFromRequest(r) ==
    LET recordID == extractRecordID(r.path)
        hasRecordID == recordID # <<>>
    IN  CASE r.method = "GET" -> IF hasRecordID THEN "show" ELSE "list"
          [] r.method = "POST" -> "create"
          [] r.method \in {"PUT", "PATCH"} -> "edit"
          [] r.method = "DELETE" -> "delete"
          [] OTHER -> ""

----------------------------------------------------------------------------
(* role-definitions.go: decoding the roles file.                           *)

\* The JSON values a rule object's fields hold.
JString(v) == [t |-> "string", v |-> v]

JArray(items) == [t |-> "array", v |-> items]

JNumber(n) == [t |-> "number", v |-> n]

\* The contents os.ReadFile returns: a document json.Unmarshal decodes into
\* map[string][]map[string]interface{} (role name -> list of objects, an
\* object being a function from its field names to JSON values), or bytes
\* it cannot decode into that shape.
Document(raw) == [decodes |-> TRUE, raw |-> raw]

Undecodable == [decodes |-> FALSE, raw |-> <<>>]

\* The loop over the items of an action list: the string items, in order.
RECURSIVE stringItems(_, _)
stringItems(v, i) ==
    IF i > Len(v) THEN <<>>
    ELSE IF v[i].t = "string" THEN <<v[i].v>> \o stringItems(v, i + 1)
    ELSE stringItems(v, i + 1)

\* The body of the loop over a role's rule objects: one Permission.
parsePermission(perm) ==
    [ Type |-> IF "type" \in DOMAIN perm /\ perm["type"].t = "string"
               THEN perm["type"].v ELSE "",
      Resource |-> IF "resource" \in DOMAIN perm /\ perm["resource"].t = "string"
                   THEN perm["resource"].v ELSE <<>>,
      Action |-> IF "action" \in DOMAIN perm
                 THEN CASE perm["action"].t = "string" ->
                             [Single |-> Ptr(perm["action"].v), Multiple |-> NilSlice]
                        [] perm["action"].t = "array" ->
                             LET actions == stringItems(perm["action"].v, 1)
                             IN  [Single |-> NilPtr,
                                  Multiple |-> IF actions = <<>> THEN NilSlice
                                               ELSE Slice(actions)]
                        [] OTHER -> NoAction
                 ELSE NoAction ]

\* func (rd *RoleDefinitions) UnmarshalJSON(data []byte) error
\* err is the error returned; rd is the receiver afterwards (the nil map it
\* was before the call when decoding fails).
UnmarshalJSON(data) ==
    IF ~data.decodes
    THEN [err |-> "decode error", rd |-> [isNil |-> TRUE, table |-> <<>>]]
    ELSE [err |-> "nil",
          rd |-> [isNil |-> FALSE,
                  table |-> [roleName \in DOMAIN data.raw |->
                                [i \in 1..Len(data.raw[roleName]) |->
                                    parsePermission(data.raw[roleName][i])]]]]

----------------------------------------------------------------------------
(* simple-rest-rbac.go: the Middleware.                                    *)

\* The placeholder the README configures as the role, and the replacer of
\* the request context: repl.ReplaceAll(input, "") puts the value the
\* request holds for the placeholder in its place, and the empty string
\* when the request holds none.
RolePlaceholder == Str("{http.auth.user.role}")

ReplaceAll(input, r) ==
    IF input = RolePlaceholder
    THEN IF r.userRole = <<>> THEN <<>> ELSE r.userRole[1]
    ELSE input

\* return caddyhttp.Error(status, err)
HandlerError(m, status, err, calls, engine, log) ==
    [kind |-> "served", m |-> m, nextCalled |-> FALSE, status |-> status, err |-> err,
     calls |-> calls, engine |-> engine, log |-> log]

\* return next.ServeHTTP(w, r)
NextServeHTTP(m, calls, engine, log) ==
    [kind |-> "served", m |-> m, nextCalled |-> TRUE, status |-> 0, err |-> "",
     calls |-> Append(calls, "next.ServeHTTP"), engine |-> engine, log |-> log]

\* A mutant of checkAccess: the decision is logged and the request forwarded
\* whatever it is.
checkAccessForwardAlways(m, permissions, action, resource, calls) ==
    LET allowed == canAccessWithPermissions(permissions, action, resource)
        engine == << [permissions |-> permissions, action |-> action,
                      resource |-> resource, result |-> allowed] >>
        called == Append(calls, "canAccessWithPermissions")
    IN  NextServeHTTP(m, called, engine, <<"Access granted">>)

\* ServeHTTP from "Check if access is allowed" on.
checkAccess(m, permissions, action, resource, calls) ==
    LET allowed == canAccessWithPermissions(permissions, action, resource)
        engine == << [permissions |-> permissions, action |-> action,
                      resource |-> resource, result |-> allowed] >>
        called == Append(calls, "canAccessWithPermissions")
    IN  IF ~allowed
        THEN HandlerError(m, 403, "access denied", called, engine, <<"Access denied">>)
        ELSE NextServeHTTP(m, called, engine, <<"Access granted">>)

\* A mutant of serveAction: a role the table does not hold has no rules.
serveActionUnknownRoleEmpty(m, r, resource, action, calls) ==
    LET resolvedRole == TrimSpace(ReplaceAll(m.Role, r))
        resolved == Append(calls, "repl.ReplaceAll")
        looked == Append(resolved, "m.roles[resolvedRole]")
    IN  IF resolvedRole = <<>>
        THEN HandlerError(m, 405, "role not defined", resolved, <<>>, <<>>)
        ELSE IF resolvedRole \notin DOMAIN m.roles.table
        THEN checkAccess(m, <<>>, action, resource, looked)
        ELSE checkAccess(m, m.roles.table[resolvedRole], action, resource, looked)

\* ServeHTTP from "Resolve placeholders in the role" on.
serveAction(m, r, resource, action, calls) ==
    LET resolvedRole == TrimSpace(ReplaceAll(m.Role, r))
        resolved == Append(calls, "repl.ReplaceAll")
        looked == Append(resolved, "m.roles[resolvedRole]")
    IN  IF resolvedRole = <<>>
        THEN HandlerError(m, 405, "role not defined", resolved, <<>>, <<>>)
        ELSE IF resolvedRole \notin DOMAIN m.roles.table
        THEN HandlerError(m, 403, "role not found", looked, <<>>, <<"Role not found">>)
        ELSE checkAccess(m, m.roles.table[resolvedRole], action, resource, looked)

\* A mutant of serveResource: an unresolved action is passed on.
serveResourceAnyMethod(m, r, resource, calls) ==
    serveAction(m, r, resource, getActionFromRequest(r),
                Append(calls, "getActionFromRequest"))

\* ServeHTTP from "Determine action from HTTP request" on.
serveResource(m, r, resource, calls) ==
    LET action == getActionFromRequest(r)
        called == Append(calls, "getActionFromRequest")
    IN  IF action = ""
        THEN HandlerError(m, 405, "method not allowed", called, <<>>, <<>>)
        ELSE serveAction(m, r, resource, action, called)

\* A mutant of ServeHTTP: a path without resource is authorized like any
\* other.
ServeHTTPNoBypass(m, r) ==
    IF ~r.hasReplacer
    THEN HandlerError(m, 500, "", <<>>, <<>>, <<>>)
    ELSE serveResource(m, r, extractResource(r.path), <<"extractResource">>)

\* func (m Middleware) ServeHTTP(w, r, next) error
\* m is the receiver, a copy of the Middleware taken at the call.
ServeHTTP(m, r) ==
    IF ~r.hasReplacer
    THEN HandlerError(m, 500, "", <<>>, <<>>, <<>>)
    ELSE LET resource == extractResource(r.path)
             called == <<"extractResource">>
         IN  IF resource = <<>>
             THEN NextServeHTTP(m, called, <<>>, <<>>)
             ELSE serveResource(m, r, resource, called)

\* A mutant of Provision: the table is cleared before the file is read.
ProvisionClearFirst(m, file) ==
    LET cleared == [m EXCEPT !.roles = [isNil |-> TRUE, table |-> <<>>]]
    IN  IF ~file.readable
        THEN [err |-> "read error", m |-> cleared]
        ELSE LET decoded == UnmarshalJSON(file.contents)
             IN  IF decoded.err # "nil"
                 THEN [err |-> decoded.err, m |-> cleared]
                 ELSE [err |-> "nil", m |-> [m EXCEPT !.roles = decoded.rd]]

\* func (m *Middleware) Provision(ctx caddy.Context) error
\* file is what os.ReadFile(m.RolesFilePath) gives: unreadable, or contents.
Provision(m, file) ==
    IF ~file.readable
    THEN [err |-> "read error", m |-> m]
    ELSE LET decoded == UnmarshalJSON(file.contents)
         IN  IF decoded.err # "nil"
             THEN [err |-> decoded.err, m |-> m]
             ELSE [err |-> "nil", m |-> [m EXCEPT !.roles = decoded.rd]]

\* func (m *Middleware) Validate() error
Validate(m) ==
    IF m.roles.isNil THEN "no role permissions defined"
    ELSE IF m.Role = <<>> THEN "no role defined"
    ELSE "nil"

----------------------------------------------------------------------------
(* Values the variables of the middleware hold while a pure function is    *)
(* called directly, and the variables of the direct call hold while the    *)
(* middleware runs.                                                        *)

NilRoles == [isNil |-> TRUE, table |-> <<>>]

NoRequest == [kind |-> "none"]

NoResponse == [kind |-> "none"]

\* loaded before any Provision call, and after a call on a file.
NotLoaded == [err |-> "none", file |-> <<>>]

Loaded(err, file) == [err |-> err, file |-> <<file>>]

MiddlewareIdle ==
    /\ roles = NilRoles
    /\ Role = <<>>
    /\ phase = "idle"
    /\ loaded = NotLoaded
    /\ request = NoRequest
    /\ response = NoResponse

NoCall ==
    /\ args = <<>>
    /\ ret = FALSE
    /\ pc = "none"

\* No Provision call in progress.
LoaderIdle == [pc |-> "idle", rd |-> 0, file |-> <<>>, todo |-> {}]

\* No map allocated, and no statement-by-statement execution under way.
NoReload ==
    /\ heap = <<>>
    /\ rolesRef = 0
    /\ loader = LoaderIdle
    /\ inflight = <<>>

----------------------------------------------------------------------------
(* The middleware in Caddy's lifecycle: the directive is parsed            *)
(* (UnmarshalCaddyfile sets Role and RolesFilePath), the module is         *)
(* provisioned and validated, and then serves requests; a reload           *)
(* provisions again.                                                       *)

Unreadable == [readable |-> FALSE, contents |-> Undecodable]

Readable(contents) == [readable |-> TRUE, contents |-> contents]

SampleRoles ==
    [ guest |-> << [action |-> JArray(<<JString("list")>>),
                    resource |-> JString(Str("posts"))],
                   [action |-> JString("read"), resource |-> JString(Str("posts.*"))],
                   [type |-> JString("deny"), action |-> JString("read"),
                    resource |-> JString(Str("posts.views"))] >>,
      writer |-> << [action |-> JArray(<<JString("list"), JString("show"),
                                         JString("create"), JString("edit")>>),
                     resource |-> JString(Str("posts"))],
                    [type |-> JString("deny"), action |-> JString("edit"),
                     resource |-> JString(Str("comments"))],
                    [type |-> JString("allow"), action |-> JString("*"),
                     resource |-> JString(Str("comments"))] >>,
      admin |-> << [action |-> JString("*"), resource |-> JString(Str("*"))] >>,
      intern |-> << >> ]

OtherRoles ==
    [ guest |-> << [type |-> JString("deny"), resource |-> JString(Str("posts"))],
                   [action |-> JArray(<<JString("list"), JNumber(1), JString("show")>>),
                    resource |-> JString(Str("*"))] >>,
      admin |-> << [type |-> JNumber(0), action |-> JArray(<<JString("*")>>),
                    resource |-> JString(Str("*"))],
                   [type |-> JString("deny"), action |-> JString("delete"),
                    resource |-> JString(Str("comm*"))] >> ]

\* A record's fields as a table keyed by role names.
Keyed(rec) == [roleName \in {Str(k) : k \in DOMAIN rec} |->
                  rec[CHOOSE k \in DOMAIN rec : Str(k) = roleName]]

RolesFiles ==
    { Unreadable, Readable(Undecodable),
      Readable(Document(Keyed(SampleRoles))), Readable(Document(Keyed(OtherRoles))) }

ConfiguredRoles == {RolePlaceholder, Str(" guest "), Str("nobody"), Str("")}

\* Caddy's server puts a replacer in the context of every request before
\* the handler chain runs.
ReplacerInContext == {TRUE}

RequestMethods == {"GET", "POST", "PATCH", "DELETE", "HEAD"}

RequestPaths ==
    {Str(""), Str("/"), Str("/posts"), Str("/posts/1"), Str("/comments/")}

UserRoles ==
    {<<>>, <<Str("guest")>>, <<Str("writer ")>>, <<Str("admin")>>, <<Str("ghost")>>}

Requests ==
    [method : RequestMethods, path : RequestPaths, hasReplacer : ReplacerInContext,
     userRole : UserRoles]

Init ==
    /\ roles = NilRoles
    /\ Role \in ConfiguredRoles
    /\ phase = "new"
    /\ loaded = NotLoaded
    /\ request = NoRequest
    /\ response = NoResponse
    /\ NoCall
    /\ NoReload

\* Caddy provisions a new module, and provisions again on a reload; when
\* Provision returns an error a new module is given up, and a reload leaves
\* the module serving.
DoProvision ==
    /\ phase \in {"new", "serving"}
    /\ \E file \in RolesFiles :
          LET done == Provision([roles |-> roles, Role |-> Role], file)
          IN  /\ roles' = done.m.roles
              /\ loaded' = Loaded(done.err, file)
              /\ phase' = IF done.err = "nil" THEN "provisioned"
                          ELSE IF phase = "new" THEN "failed" ELSE phase
    /\ UNCHANGED <<Role, request, response, args, ret, pc,
                 heap, rolesRef, loader, inflight>>

\* Caddy validates a module it has provisioned, and serves with it only
\* when Validate returns no error.
DoValidate ==
    /\ phase = "provisioned"
    /\ phase' = IF Validate([roles |-> roles, Role |-> Role]) = "nil"
                THEN "serving" ELSE "failed"
    /\ UNCHANGED <<roles, Role, loaded, request, response, args, ret, pc,
                 heap, rolesRef, loader, inflight>>

DoServeHTTP ==
    /\ phase = "serving"
    /\ \E r \in Requests :
          /\ request' = r
          /\ response' = ServeHTTP([roles |-> roles, Role |-> Role], r)
    /\ UNCHANGED <<roles, Role, phase, loaded, args, ret, pc,
                 heap, rolesRef, loader, inflight>>

Next == DoProvision \/ DoValidate \/ DoServeHTTP

Spec == Init /\ [][Next]_vars

\* The methods the README maps to an action.
SupportedMethods == {"GET", "POST", "PUT", "PATCH", "DELETE"}

\* The path convention stated on positions of the path: the resource runs
\* from the first character that is not "/" up to the next "/", and the
\* identifier from there up to the "/" after it.
FirstAt(path, from, isSlash) ==
    LET hits == {i \in from..Len(path) : (path[i] = Slash) = isSlash}
    IN  IF hits = {} THEN Len(path) + 1
        ELSE CHOOSE i \in hits : \A j \in hits : i <= j

ResourceOf(path) ==
    LET start == FirstAt(path, 1, FALSE)
        stop == FirstAt(path, start, TRUE)
    IN  SubSeq(path, start, stop - 1)

IdentifierOf(path) ==
    LET start == FirstAt(path, 1, FALSE)
        stop == FirstAt(path, start, TRUE)
        next == FirstAt(path, stop + 1, TRUE)
    IN  SubSeq(path, stop + 1, next - 1)

HasResource(path) == ResourceOf(path) # <<>>

\* The README's table from method and "has identifier" to action.
ExpectedAction(method, path) ==
    LET hasIdentifier == IdentifierOf(path) # <<>>
    IN  IF method = "GET" /\ ~hasIdentifier THEN "list"
        ELSE IF method = "GET" /\ hasIdentifier THEN "show"
        ELSE IF method = "POST" THEN "create"
        ELSE IF method = "PUT" \/ method = "PATCH" THEN "edit"
        ELSE IF method = "DELETE" THEN "delete"
        ELSE ""

\* The action identifiers a rule names.
ActionIdsOf(permission) ==
    {permission.Action.Single[i] : i \in 1..Len(permission.Action.Single)}
        \cup {permission.Action.Multiple.items[i] :
                  i \in 1..Len(permission.Action.Multiple.items)}

\* The role a request is served for, once the placeholder of the configured
\* role is resolved.
RoleOf(m, r) == TrimSpace(ReplaceAll(m.Role, r))

\* C4: for a request whose path has a resource and whose method, role and
\* role lookup are valid, ServeHTTP calls the decision engine once, with the
\* role's rules, the resolved action and the resource; it invokes the next
\* handler exactly when the engine allowed; when the engine denied, the
\* outcome is 403 Forbidden and the next handler is not invoked.
C4_NextIffEngineAllows ==
    ( /\ response.kind = "served"
      /\ HasResource(request.path)
      /\ request.method \in SupportedMethods
      /\ RoleOf(response.m, request) # <<>>
      /\ RoleOf(response.m, request) \in DOMAIN response.m.roles.table )
    => /\ Len(response.engine) = 1
       /\ response.engine[1].permissions
              = response.m.roles.table[RoleOf(response.m, request)]
       /\ response.engine[1].action = ExpectedAction(request.method, request.path)
       /\ response.engine[1].resource = ResourceOf(request.path)
       /\ response.engine[1].result
              = canAccessWithPermissions(response.engine[1].permissions,
                                         response.engine[1].action,
                                         response.engine[1].resource)
       /\ response.nextCalled <=> response.engine[1].result
       /\ ~response.engine[1].result =>
              (response.status = 403 /\ response.err = "access denied")

\* C4 witness: the engine denied a guest the creation of a post, the answer
\* was 403 and the next handler was not invoked.
C4_Witness ==
    /\ response.kind = "served"
    /\ request.method = "POST"
    /\ request.path = Str("/posts")
    /\ RoleOf(response.m, request) = Str("guest")
    /\ Len(response.engine) = 1
    /\ response.engine[1].result = FALSE
    /\ response.status = 403
    /\ ~response.nextCalled

\* C9 as stated: for every request whose method is not one of GET, POST,
\* PUT, PATCH, DELETE the next handler is not invoked and the decision
\* engine is not consulted.
C9_UnsupportedMethodRejected ==
    (response.kind = "served" /\ request.method \notin SupportedMethods)
    => (~response.nextCalled /\ response.engine = <<>>)

\* C9 amended: for every request whose path has a resource and whose method
\* is not one of GET, POST, PUT, PATCH, DELETE, ServeHTTP answers 405
\* "method not allowed" without invoking the next handler; and for no
\* request with such a method, with or without resource, is the decision
\* engine consulted.
C9_UnsupportedMethodOnResourceRejected ==
    (response.kind = "served" /\ request.method \notin SupportedMethods)
    => /\ response.engine = <<>>
       /\ "canAccessWithPermissions" \notin
              {response.calls[i] : i \in 1..Len(response.calls)}
       /\ HasResource(request.path) =>
              /\ ~response.nextCalled
              /\ response.status = 405
              /\ response.err = "method not allowed"

\* C9 witness: a HEAD request on /posts, for a role that may do anything,
\* was answered 405 and not forwarded.
C9_Witness ==
    /\ response.kind = "served"
    /\ request.method = "HEAD"
    /\ request.path = Str("/posts")
    /\ RoleOf(response.m, request) = Str("admin")
    /\ RoleOf(response.m, request) \in DOMAIN response.m.roles.table
    /\ response.status = 405
    /\ ~response.nextCalled
    /\ response.engine = <<>>

\* C10: for every request whose path has no resource segment, ServeHTTP
\* forwards the request to the next handler without resolving the action,
\* looking up the role or calling the decision engine, whatever the method,
\* the role and the loaded role table are.
C10_NoResourceBypasses ==
    (response.kind = "served" /\ ~HasResource(request.path))
    => /\ response.nextCalled
       /\ response.calls = <<"extractResource", "next.ServeHTTP">>
       /\ response.engine = <<>>
       /\ response.log = <<>>

\* C10 witness: a DELETE on "/" for a role the table does not hold was
\* forwarded to the next handler.
C10_Witness ==
    /\ response.kind = "served"
    /\ request.method = "DELETE"
    /\ request.path = Str("/")
    /\ RoleOf(response.m, request) = Str("ghost")
    /\ RoleOf(response.m, request) \notin DOMAIN response.m.roles.table
    /\ response.nextCalled

\* C11 as stated: when the role of a request is not a key of the loaded
\* table, the outcome is the "role not found" rejection, the decision engine
\* is not called and the next handler is not invoked.
C11_UnknownRoleRejected ==
    ( /\ response.kind = "served"
      /\ RoleOf(response.m, request) \notin DOMAIN response.m.roles.table )
    => /\ response.status = 403
       /\ response.err = "role not found"
       /\ response.engine = <<>>
       /\ ~response.nextCalled

\* C11 amended: for a request whose path has a resource, whose method is
\* one of GET, POST, PUT, PATCH, DELETE and whose resolved role is not empty,
\* a role that is not a key of the loaded table gives 403 with the error
\* "role not found" and the warning "Role not found" (a denial gives the
\* error "access denied" and the log "Access denied"), without invoking the
\* next handler; and for no request with such a role, whatever its path and
\* method, is the decision engine called.
C11_UnknownRoleOnResourceRejected ==
    ( /\ response.kind = "served"
      /\ RoleOf(response.m, request) \notin DOMAIN response.m.roles.table )
    => /\ response.engine = <<>>
       /\ response.err # "access denied"
       /\ response.log # <<"Access denied">>
       /\ ( /\ HasResource(request.path)
            /\ request.method \in SupportedMethods
            /\ RoleOf(response.m, request) # <<>> )
          => /\ response.status = 403
             /\ response.err = "role not found"
             /\ response.log = <<"Role not found">>
             /\ ~response.nextCalled

\* C11 witness: a GET on /posts for the role "ghost", which the table does
\* not hold, was answered 403 "role not found".
C11_Witness ==
    /\ response.kind = "served"
    /\ request.method = "GET"
    /\ request.path = Str("/posts")
    /\ RoleOf(response.m, request) = Str("ghost")
    /\ Str("ghost") \notin DOMAIN response.m.roles.table
    /\ response.status = 403
    /\ response.err = "role not found"
    /\ ~response.nextCalled

\* The file of a load cannot be read, or cannot be decoded.
FailingFile(file) == ~file.readable \/ ~file.contents.decodes

\* C12: when a load fails (the file cannot be read or cannot be decoded),
\* Provision returns an error and the role table is left as it was; the
\* table changes only in a load that returns no error, and then to the
\* complete decoding of the file.
C12_FailedLoadKeepsTable ==
    [][ /\ (loaded'.file # <<>> /\ FailingFile(loaded'.file[1]))
           => (loaded'.err \in {"read error", "decode error"} /\ roles' = roles)
        /\ (roles' # roles)
           => /\ loaded'.err = "nil"
              /\ ~FailingFile(loaded'.file[1])
              /\ roles' = UnmarshalJSON(loaded'.file[1].contents).rd ]_vars

\* C12 witness: a reload has failed on an undecodable file while the module
\* serves, and a request is answered from the table of the earlier load.
C12_Witness ==
    /\ phase = "serving"
    /\ loaded.err = "decode error"
    /\ ~roles.isNil
    /\ response.kind = "served"
    /\ response.m.roles = roles
    /\ response.engine # <<>>

\* C17: every call ServeHTTP makes to the decision engine passes a
\* non-empty resource, an action among list, show, create, edit, delete,
\* and the rule list of a role of the table; no call has an empty or "*"
\* action, so the unconditional action match of matchTarget is not reached
\* from a request.
C17_EngineCallsWellFormed ==
    response.kind = "served" =>
        \A i \in 1..Len(response.engine) :
            LET call == response.engine[i]
            IN  /\ call.resource # <<>>
                /\ call.action \in {"list", "show", "create", "edit", "delete"}
                /\ call.action \notin {"", "*"}
                /\ \E roleName \in DOMAIN response.m.roles.table :
                       call.permissions = response.m.roles.table[roleName]
                /\ \A j \in 1..Len(call.permissions) :
                       matchWildcard(call.permissions[j].Resource, call.resource)
                           => ( matchTarget(call.permissions[j], call.resource, call.action)
                                <=> ("*" \in ActionIdsOf(call.permissions[j])
                                     \/ call.action \in ActionIdsOf(call.permissions[j])) )

\* C17 witness: the engine was called for a DELETE on a resource, with the
\* action "delete" and a rule list whose pattern matches the resource.
C17_Witness ==
    /\ response.kind = "served"
    /\ Len(response.engine) = 1
    /\ response.engine[1].action = "delete"
    /\ response.engine[1].resource = Str("comments")
    /\ \E j \in 1..Len(response.engine[1].permissions) :
          matchWildcard(response.engine[1].permissions[j].Resource, Str("comments"))

----------------------------------------------------------------------------
(* matchWildcard called directly on every pair of bounded strings.         *)

MaxLen == 3

MatchAlphabet == {"a", "b", "*"}

NamedResources ==
    { Str("posts"), Str("posts.*"), Str("posts.views"), Str("posts.average_note"),
      Str("comments.views"), Str("foo"), Str("foobar"), Str("fo*o"), Str("*") }

MatchInputs == StringsUpTo(MatchAlphabet, MaxLen) \cup NamedResources

InitMatch ==
    /\ MiddlewareIdle
    /\ NoReload
    /\ args \in [pattern : MatchInputs, resource : MatchInputs]
    /\ ret = FALSE
    /\ pc = "call"

CallMatchWildcard ==
    /\ pc = "call"
    /\ ret' = matchWildcard(args.pattern, args.resource)
    /\ pc' = "done"
    /\ UNCHANGED <<roles, Role, phase, loaded, request, response, args,
                 heap, rolesRef, loader, inflight>>

SpecMatch == InitMatch /\ [][CallMatchWildcard]_vars

\* C5: matchWildcard(pattern, resource) is true exactly when pattern is "*",
\* or pattern equals resource, or pattern ends with "*" and resource starts
\* with the pattern minus that final character; "posts.*" matches
\* "posts.views" and "posts.average_note" but neither "posts" nor
\* "comments.views"; "foo" matches "foo" but not "foobar"; a "*" that is not
\* the last character is a literal.
C5_MatchWildcardExactly ==
    pc = "done" =>
        LET p == args.pattern
            r == args.resource
            n == Len(p)
        IN  /\ ret <=> \/ (n = 1 /\ p[1] = "*")
                       \/ (n = Len(r) /\ \A i \in 1..n : p[i] = r[i])
                       \/ /\ n >= 1
                          /\ p[n] = "*"
                          /\ Len(r) >= n - 1
                          /\ \A i \in 1..(n - 1) : r[i] = p[i]
            /\ (p = Str("posts.*") /\ r = Str("posts.views")) => ret
            /\ (p = Str("posts.*") /\ r = Str("posts.average_note")) => ret
            /\ (p = Str("posts.*") /\ r = Str("posts")) => ~ret
            /\ (p = Str("posts.*") /\ r = Str("comments.views")) => ~ret
            /\ (p = Str("foo") /\ r = Str("foo")) => ret
            /\ (p = Str("foo") /\ r = Str("foobar")) => ~ret
            /\ (p = Str("fo*o") /\ r = Str("foo")) => ~ret
            /\ (p = Str("fo*o") /\ r = Str("fo*o")) => ret
            /\ (p = Star) => ret

\* C5 witness: the prefix pattern "posts.*" was matched against
\* "posts.views" and accepted.
C5_Witness ==
    /\ pc = "done"
    /\ args.pattern = Str("posts.*")
    /\ args.resource = Str("posts.views")
    /\ ret = TRUE

----------------------------------------------------------------------------
(* matchTarget called directly: one rule, one requested (action, resource). *)

TargetTypes == {"allow", "deny", ""}

TargetActions ==
    { SingleAction("list"), SingleAction("read"), SingleAction("*"),
      MultipleAction(<<"list", "show">>), MultipleAction(<<"*">>),
      MultipleAction(<<"create", "*">>), NoAction }

TargetPatterns == {Str("posts"), Str("posts.*"), Str("*"), Str("comments")}

TargetPermissions ==
    {Permission(t, a, r) : t \in TargetTypes, a \in TargetActions, r \in TargetPatterns}

RequestedActions == {"list", "show", "create", "read", "delete", "", "*"}

RequestedResources == {Str("posts"), Str("posts.views"), Str("comments")}

InitTarget ==
    /\ MiddlewareIdle
    /\ NoReload
    /\ args \in [permission : TargetPermissions,
                 action : RequestedActions,
                 resource : RequestedResources]
    /\ ret = FALSE
    /\ pc = "call"

CallMatchTarget ==
    /\ pc = "call"
    /\ ret' = matchTarget(args.permission, args.resource, args.action)
    /\ pc' = "done"
    /\ UNCHANGED <<roles, Role, phase, loaded, request, response, args,
                 heap, rolesRef, loader, inflight>>

SpecTarget == InitTarget /\ [][CallMatchTarget]_vars

\* The action identifiers a rule names, in its scalar or its list form.
ActionIds(permission) ==
    {permission.Action.Single[i] : i \in 1..Len(permission.Action.Single)}
        \cup {permission.Action.Multiple.items[i] :
                  i \in 1..Len(permission.Action.Multiple.items)}

\* C6: for a rule whose resource pattern matches the requested resource,
\* matchTarget matches unconditionally when the requested action is empty or
\* "*", and otherwise exactly when the rule's action (scalar or list) is or
\* contains "*" or the requested action; [list, show] matches list and show
\* but not create, and ["*"] matches every action.
C6_MatchTargetAction ==
    (pc = "done" /\ matchWildcard(args.permission.Resource, args.resource)) =>
        /\ (args.action \in {"", "*"}) => ret
        /\ (args.action \notin {"", "*"}) =>
               (ret <=> ("*" \in ActionIds(args.permission)
                          \/ args.action \in ActionIds(args.permission)))
        /\ (args.permission.Action = MultipleAction(<<"list", "show">>)) =>
               /\ (args.action \in {"list", "show"}) => ret
               /\ (args.action = "create") => ~ret
        /\ (args.permission.Action = MultipleAction(<<"*">>)) => ret

\* C6 witness: a rule without any action matched a request whose action is
\* empty, on a resource its pattern matches.
C6_Witness ==
    /\ pc = "done"
    /\ args.permission.Action = NoAction
    /\ args.action = ""
    /\ matchWildcard(args.permission.Resource, args.resource)
    /\ ret = TRUE

----------------------------------------------------------------------------
(* canAccessWithPermissions called directly on every rule list of at most  *)
(* MaxRules rules.                                                         *)

MaxRules == 3

Allow == "allow"

Deny == "deny"

EnginePermissions ==
    { Permission(Allow, MultipleAction(<<"list", "show">>), Str("posts")),
      Permission(Deny, SingleAction("read"), Str("posts.views")),
      Permission("", SingleAction("read"), Str("posts.*")),
      Permission(Deny, SingleAction("list"), Str("posts")),
      Permission(Allow, SingleAction("*"), Str("*")),
      Permission(Deny, MultipleAction(<<"show", "delete">>), Str("*")),
      Permission(Deny, NoAction, Str("comments")),
      Permission(Allow, NoAction, Str("posts")),
      Permission("", MultipleAction(<<"list", "create">>), Str("comments")),
      Permission(Deny, MultipleAction(<<"*">>), Str("posts.*")) }

RECURSIVE ListsUpTo(_, _)
ListsUpTo(S, n) ==
    IF n = 0 THEN {<<>>}
    ELSE LET shorter == ListsUpTo(S, n - 1)
         IN  shorter \cup {Append(l, x) : l \in shorter, x \in S}

EngineActions == {"list", "show", "read", "delete", "", "*"}

InitEngine ==
    /\ MiddlewareIdle
    /\ NoReload
    /\ args \in [permissions : ListsUpTo(EnginePermissions, MaxRules),
                 action : EngineActions,
                 resource : RequestedResources]
    /\ ret = FALSE
    /\ pc = "call"

CallCanAccess ==
    /\ pc = "call"
    /\ ret' = canAccessWithPermissions(args.permissions, args.action, args.resource)
    /\ pc' = "done"
    /\ UNCHANGED <<roles, Role, phase, loaded, request, response, args,
                 heap, rolesRef, loader, inflight>>

SpecEngine == InitEngine /\ [][CallCanAccess]_vars

\* The rules of the list, of the given kind, that match the request.
MatchingDeny(permissions, action, resource) ==
    {i \in 1..Len(permissions) :
        permissions[i].Type = "deny" /\ matchTarget(permissions[i], resource, action)}

MatchingAllow(permissions, action, resource) ==
    {i \in 1..Len(permissions) :
        permissions[i].Type # "deny" /\ matchTarget(permissions[i], resource, action)}

\* C1: if at least one deny rule matches the resource and the action,
\* canAccessWithPermissions returns false, however many allow rules also
\* match and wherever the deny rule sits in the list.
C1_DenyWins ==
    (pc = "done" /\ MatchingDeny(args.permissions, args.action, args.resource) # {})
        => ret = FALSE

\* C1 witness: a deny rule in last position matched after two matching allow
\* rules, and the call returned false.
C1_Witness ==
    /\ pc = "done"
    /\ Len(args.permissions) = 3
    /\ MatchingDeny(args.permissions, args.action, args.resource) = {3}
    /\ MatchingAllow(args.permissions, args.action, args.resource) = {1, 2}
    /\ args.action \notin {"", "*"}
    /\ ret = FALSE

ScenarioRules ==
    << Permission(Allow, MultipleAction(<<"list", "show">>), Str("posts")),
       Permission(Deny, SingleAction("read"), Str("posts.views")) >>

\* C2: when no deny rule matches, canAccessWithPermissions returns true
\* exactly when some rule whose type is not "deny" matches; when no rule
\* matches at all, and for the empty list, it returns false; the scenario
\* rules give (list, posts) = true, (delete, posts) = false and
\* (read, posts.views) = false.
C2_AllowOrDefaultDeny ==
    pc = "done" =>
        LET denies == MatchingDeny(args.permissions, args.action, args.resource)
            allows == MatchingAllow(args.permissions, args.action, args.resource)
        IN  /\ (denies = {}) => (ret <=> allows # {})
            /\ (denies = {} /\ allows = {}) => ret = FALSE
            /\ (args.permissions = <<>>) => ret = FALSE
            /\ (args.permissions = ScenarioRules) =>
                   /\ (args.action = "list" /\ args.resource = Str("posts")) => ret = TRUE
                   /\ (args.action = "delete" /\ args.resource = Str("posts")) => ret = FALSE
                   /\ (args.action = "read" /\ args.resource = Str("posts.views"))
                          => ret = FALSE

\* C2 witness: the scenario rules were asked (list, posts) and allowed it.
C2_Witness ==
    /\ pc = "done"
    /\ args.permissions = ScenarioRules
    /\ args.action = "list"
    /\ args.resource = Str("posts")
    /\ ret = TRUE

\* The permutations of 1..n, and a list reordered by one of them.
Orderings(n) ==
    {f \in [1..n -> 1..n] : \A i, j \in 1..n : f[i] = f[j] => i = j}

Permuted(list, f) == [i \in 1..Len(list) |-> list[f[i]]]

\* C3: canAccessWithPermissions returns the same result on a rule list and
\* on every permutation of it.
C3_OrderIndependent ==
    pc = "done" =>
        \A f \in Orderings(Len(args.permissions)) :
            canAccessWithPermissions(Permuted(args.permissions, f),
                                     args.action, args.resource) = ret

\* C3 witness: a list of three rules in which an allow rule matches before a
\* deny rule that matches too, so that the order of the scan could matter.
C3_Witness ==
    /\ pc = "done"
    /\ Len(args.permissions) = 3
    /\ 1 \in MatchingAllow(args.permissions, args.action, args.resource)
    /\ 3 \in MatchingDeny(args.permissions, args.action, args.resource)
    /\ args.permissions[1] # args.permissions[2]
    /\ ret = FALSE

----------------------------------------------------------------------------
(* The path convention and the action resolver called directly on every    *)
(* method and every bounded path.                                          *)

MaxPathLen == 4

PathAlphabet == {Slash, "a", "1"}

NamedPaths ==
    { Str("/posts"), Str("/posts/1"), Str("/posts/1/comments"), Str("/posts/"),
      Str("/posts//1"), Str("posts/1") }

Paths == StringsUpTo(PathAlphabet, MaxPathLen) \cup NamedPaths

Methods == {"GET", "POST", "PUT", "PATCH", "DELETE", "HEAD", "OPTIONS", "get"}

NotCalled == [fn |-> "none"]

InitResolve ==
    /\ MiddlewareIdle
    /\ NoReload
    /\ args \in [method : Methods, path : Paths]
    /\ ret = NotCalled
    /\ pc = "call"

CallExtract ==
    /\ pc = "call"
    /\ ret' = [fn |-> "extract",
               resource |-> extractResource(args.path),
               recordID |-> extractRecordID(args.path)]
    /\ pc' = "done"
    /\ UNCHANGED <<roles, Role, phase, loaded, request, response, args,
                 heap, rolesRef, loader, inflight>>

CallGetAction ==
    /\ pc = "call"
    /\ ret' = [fn |-> "getAction",
               action |-> getActionFromRequest(args),
               fromMethod |-> getActionFromMethod(args.method,
                                                  extractRecordID(args.path) # <<>>)]
    /\ pc' = "done"
    /\ UNCHANGED <<roles, Role, phase, loaded, request, response, args,
                 heap, rolesRef, loader, inflight>>

SpecResolve == InitResolve /\ [][CallExtract \/ CallGetAction]_vars

\* C7: the action resolver maps GET without identifier to "list", GET with
\* identifier to "show", POST to "create", PUT and PATCH to "edit", DELETE
\* to "delete" (the last three with or without identifier), and every other
\* method to the empty string.
C7_ActionResolver ==
    (pc = "done" /\ ret.fn = "getAction") =>
        /\ ret.action = ExpectedAction(args.method, args.path)
        /\ ret.fromMethod = ExpectedAction(args.method, args.path)
        /\ (args.method \in {"HEAD", "OPTIONS"}) => ret.action = ""

\* C7 witness: a PUT on a path without identifier resolved to "edit".
C7_Witness ==
    /\ pc = "done"
    /\ ret.fn = "getAction"
    /\ args.method = "PUT"
    /\ args.path = Str("/posts")
    /\ ret.action = "edit"

\* C8: with the empty segments of leading and trailing "/" discarded, the
\* first segment of the path is the resource and the second, if present, the
\* identifier; further segments are ignored; "/posts/1/comments" gives
\* ("posts", "1"), "/posts" gives ("posts", none), "/" and "" give no
\* resource.
C8_PathExtraction ==
    (pc = "done" /\ ret.fn = "extract") =>
        /\ ret.resource = ResourceOf(args.path)
        /\ ret.recordID = IdentifierOf(args.path)
        /\ (args.path = Str("/posts/1/comments")) =>
               (ret.resource = Str("posts") /\ ret.recordID = Str("1"))
        /\ (args.path = Str("/posts")) =>
               (ret.resource = Str("posts") /\ ret.recordID = <<>>)
        /\ (args.path \in {Str("/"), Str("")}) => ret.resource = <<>>

\* C8 witness: "/posts/1/comments" was split into resource "posts" and
\* identifier "1".
C8_Witness ==
    /\ pc = "done"
    /\ ret.fn = "extract"
    /\ args.path = Str("/posts/1/comments")
    /\ ret.resource = Str("posts")
    /\ ret.recordID = Str("1")

----------------------------------------------------------------------------
(* A roles file of one role decoded and asked for a decision: one rule     *)
(* object of every shape, before or after the rules of a companion list.   *)

\* A field that is absent, and one that holds a value.
Absent == <<>>

Present(v) == <<v>>

\* A rule object with the fields that are present.
RawObject(type, action, resource) ==
    [ field \in {f \in {"type", "action", "resource"} :
                   \/ (f = "type" /\ type # Absent)
                   \/ (f = "action" /\ action # Absent)
                   \/ (f = "resource" /\ resource # Absent)} |->
        CASE field = "type" -> type[1]
          [] field = "action" -> action[1]
          [] field = "resource" -> resource[1] ]

\* The shapes of the type field, by name: a string shape is named by its
\* value.
TypeShapes == {"absent", "number", "empty", "deny", "allow", "Deny"}

RawType(shape) ==
    CASE shape = "absent" -> Absent
      [] shape = "number" -> Present(JNumber(0))
      [] shape = "empty" -> Present(JString(""))
      [] OTHER -> Present(JString(shape))

\* The shapes of the action field, by name.
ActionShapes ==
    {"absent", "number", "empty", "list", "*", "[]", "[number]", "[list,show]"}

RawAction(shape) ==
    CASE shape = "absent" -> Absent
      [] shape = "number" -> Present(JNumber(1))
      [] shape = "empty" -> Present(JString(""))
      [] shape = "[]" -> Present(JArray(<<>>))
      [] shape = "[number]" -> Present(JArray(<<JNumber(1)>>))
      [] shape = "[list,show]" -> Present(JArray(<<JString("list"), JString("show")>>))
      [] OTHER -> Present(JString(shape))

ResourcePatterns == {Str("posts"), Str("posts.*"), Star}

\* The rules that stand beside the rule under test, by name.
CompanionShapes == {"none", "allow all", "deny list posts"}

CompanionRules(shape) ==
    CASE shape = "none" -> <<>>
      [] shape = "allow all" ->
            << RawObject(Absent, Present(JString("*")), Present(JString(Star))) >>
      [] shape = "deny list posts" ->
            << RawObject(Present(JString("deny")), Present(JString("list")),
                         Present(JString(Str("posts")))) >>

ParseActions == {"list", "show", "delete", "", "*"}

TheRole == Str("role")

InitParse ==
    /\ MiddlewareIdle
    /\ NoReload
    /\ args \in [type : TypeShapes, action : ActionShapes, resource : ResourcePatterns,
                 others : CompanionShapes, first : BOOLEAN, garbled : BOOLEAN,
                 requestedAction : ParseActions, requestedResource : RequestedResources]
    /\ ret = NotCalled
    /\ pc = "call"

\* The bytes of the roles file: the one role with its rule objects, or
\* bytes that do not decode.
FileContents(a) ==
    IF a.garbled THEN Undecodable
    ELSE LET rule == RawObject(RawType(a.type), RawAction(a.action),
                                 Present(JString(a.resource)))
             others == CompanionRules(a.others)
         IN  Document([roleName \in {TheRole} |->
                          IF a.first THEN <<rule>> \o others ELSE others \o <<rule>>])

CallUnmarshalAndDecide ==
    /\ pc = "call"
    /\ LET decoded == UnmarshalJSON(FileContents(args))
           permissions == IF decoded.err = "nil" THEN decoded.rd.table[TheRole] ELSE <<>>
           at == IF args.first THEN 1 ELSE Len(permissions)
       IN  ret' = [ fn |-> "decide",
                    err |-> decoded.err,
                    isNil |-> decoded.rd.isNil,
                    permissions |-> permissions,
                    at |-> at,
                    matched |-> IF decoded.err = "nil"
                                THEN matchTarget(permissions[at], args.requestedResource,
                                                 args.requestedAction)
                                ELSE FALSE,
                    allowed |-> canAccessWithPermissions(permissions, args.requestedAction,
                                                         args.requestedResource) ]
    /\ pc' = "done"
    /\ UNCHANGED <<roles, Role, phase, loaded, request, response, args,
                 heap, rolesRef, loader, inflight>>

SpecParse == InitParse /\ [][CallUnmarshalAndDecide]_vars

\* What the companion rules decide without the rule under test.
CompanionsAllow(a) ==
    canAccessWithPermissions(
        UnmarshalJSON(Document([roleName \in {TheRole} |->
                                   CompanionRules(a.others)])).rd.table[TheRole],
        a.requestedAction, a.requestedResource)

\* The companion list holds a deny rule: the one on (list, posts).
CompanionDenies(a) ==
    /\ a.others = "deny list posts"
    /\ a.requestedResource = Str("posts")
    /\ a.requestedAction \in {"list", "", "*"}

\* The rule under test names the requested action, or "*".
NamesAction(a) ==
    LET action == RawAction(a.action)
    IN  /\ action # Absent
        /\ \/ action[1].t = "string" /\ action[1].v \in {"*", a.requestedAction}
           \/ /\ action[1].t = "array"
              /\ \E i \in 1..Len(action[1].v) :
                    action[1].v[i].t = "string"
                        /\ action[1].v[i].v \in {"*", a.requestedAction}

\* The pattern of the rule under test covers the requested resource.
CoversResource(a) ==
    \/ a.resource = Star
    \/ a.resource = a.requestedResource
    \/ (a.resource = Str("posts.*") /\ a.requestedResource = Str("posts.views"))

\* C14: a rule whose type is missing, is not a string, or is a string other
\* than exactly "deny" is evaluated as an allow rule: the deny pass skips it
\* and the allow pass grants on it.
C14_NonDenyTypeAllows ==
    (pc = "done" /\ ~args.garbled /\ args.type # "deny") =>
        /\ ret.permissions[ret.at].Type # "deny"
        /\ (CoversResource(args) /\ ~CompanionDenies(args)
               /\ (NamesAction(args) \/ args.requestedAction \in {"", "*"}))
              => ret.allowed = TRUE
        /\ CompanionsAllow(args) => ret.allowed = TRUE

\* C14 witness: a rule of type "Deny" alone in its list granted (list, posts).
C14_Witness ==
    /\ pc = "done"
    /\ ~args.garbled
    /\ args.type = "Deny"
    /\ args.others = "none"
    /\ args.action = "list"
    /\ args.requestedAction = "list"
    /\ args.requestedResource = Str("posts")
    /\ ret.allowed = TRUE

\* The action field of the rule under test is omitted or empty.
EmptyAction(a) ==
    a.action \in {"absent", "empty", "[]"}

\* C15 as stated: a deny rule whose action is empty or omitted matches any
\* requested action on every resource its pattern matches, so the decision
\* is false for every action on such a resource.
C15_EmptyDenyShadowsAll ==
    ( /\ pc = "done"
      /\ ~args.garbled
      /\ args.type = "deny"
      /\ EmptyAction(args)
      /\ CoversResource(args) )
    => (ret.matched /\ ret.allowed = FALSE)

\* C15 amended: a deny rule whose action is empty or omitted matches, on a
\* resource its pattern matches, exactly the requests whose action is itself
\* empty or "*", and the decision is then false; for every other requested
\* action it matches nothing and the decision is the one of the other rules.
C15_EmptyDenyMatchesGenericOnly ==
    ( /\ pc = "done"
      /\ ~args.garbled
      /\ args.type = "deny"
      /\ EmptyAction(args)
      /\ CoversResource(args) )
    => /\ ret.matched <=> args.requestedAction \in {"", "*"}
       /\ (args.requestedAction \in {"", "*"}) => ret.allowed = FALSE
       /\ (args.requestedAction \notin {"", "*"}) => ret.allowed = CompanionsAllow(args)

\* C15 witness: a deny rule without action on "posts" stands before a rule
\* that allows everything, and (list, posts) is allowed.
C15_Witness ==
    /\ pc = "done"
    /\ ~args.garbled
    /\ args.type = "deny"
    /\ args.action = "absent"
    /\ args.resource = Str("posts")
    /\ args.first
    /\ args.others = "allow all"
    /\ args.requestedAction = "list"
    /\ args.requestedResource = Str("posts")
    /\ ret.allowed = TRUE

\* The action of the rule under test is missing, of a type that is neither
\* string nor list, an empty list, or a list without string item.
IncompleteAction(a) ==
    a.action \in {"absent", "number", "[]", "[number]"}

\* C16 as stated: parsing succeeds whenever the input decodes, a rule with
\* an incomplete action is accepted, and such a rule never matches any
\* (action, resource) request.
C16_IncompleteActionNeverMatches ==
    pc = "done" =>
        /\ ~args.garbled => (ret.err = "nil" /\ Len(ret.permissions) = Len(CompanionRules(args.others)) + 1)
        /\ (~args.garbled /\ IncompleteAction(args)) => ~ret.matched

\* C16 amended: parsing succeeds whenever the input decodes, a rule with an
\* incomplete action is accepted as a rule without action identifiers, and
\* such a rule matches no request whose action is neither empty nor "*" (it
\* leaves the decision to the other rules); on a resource its pattern
\* matches it does match a request whose action is empty or "*".
C16_IncompleteActionMatchesGenericOnly ==
    pc = "done" =>
        /\ ret.err = "nil" <=> ~args.garbled
        /\ ~args.garbled => Len(ret.permissions) = Len(CompanionRules(args.others)) + 1
        /\ (~args.garbled /\ IncompleteAction(args)) =>
               /\ ret.permissions[ret.at].Action = NoAction
               /\ ret.matched <=> (CoversResource(args)
                                    /\ args.requestedAction \in {"", "*"})
               /\ (args.requestedAction \notin {"", "*"})
                      => ret.allowed = CompanionsAllow(args)

\* C16 witness: a rule whose action list holds no string was parsed without
\* error, stands alone, and (list, posts) is denied.
C16_Witness ==
    /\ pc = "done"
    /\ ~args.garbled
    /\ args.action = "[number]"
    /\ args.type = "absent"
    /\ args.resource = Str("posts")
    /\ args.others = "none"
    /\ args.requestedAction = "list"
    /\ args.requestedResource = Str("posts")
    /\ ret.err = "nil"
    /\ ret.allowed = FALSE

----------------------------------------------------------------------------
(* A reload beside requests in progress, statement by statement: Provision *)
(* on the goroutine that loads the configuration, each ServeHTTP call on a *)
(* goroutine of its own. A Go map value is a reference, so the maps are    *)
(* objects of a heap, and m.roles and the copy a call holds are addresses. *)

MaxReloads == 1

MaxCalls == 2

\* make(RoleDefinitions): a map without key.
EmptyMap == [roleName \in {} |-> <<>>]

\* (*rd)[roleName] = roleDef
MapInsert(table, roleName, roleDef) ==
    [k \in DOMAIN table \cup {roleName} |-> IF k = roleName THEN roleDef ELSE table[k]]

\* A mutant of makeRoleDefinitions: UnmarshalJSON is called on &m.roles, so
\* the map it makes is the one m.roles holds from then on.
makeRoleDefinitionsInPlace(h, published) ==
    [heap |-> Append(h, EmptyMap), rd |-> Len(h) + 1, roles |-> Len(h) + 1]

\* `*rd = make(RoleDefinitions)` in the call rd.UnmarshalJSON(data) of
\* Provision, rd being its local variable: a new map object, held by rd;
\* m.roles holds what it held.
makeRoleDefinitions(h, published) ==
    [heap |-> Append(h, EmptyMap), rd |-> Len(h) + 1, roles |-> published]

\* The roles files json.Unmarshal decodes, and the tables they decode to.
DecodableFiles == {file \in RolesFiles : file.readable /\ file.contents.decodes}

CompleteTables == {UnmarshalJSON(file.contents).rd.table : file \in DecodableFiles}

\* A goroutine that is not in ServeHTTP.
CallIdle ==
    [pc |-> "idle", m |-> 0, role |-> <<>>, permissions |-> <<>>, outcome |-> "none"]

\* The roles the requests resolve to, and what they all ask for.
ReloadRoles == {Str("admin"), Str("writer")}

ReloadAction == "delete"

ReloadResource == Str("comments")

\* The module serves: its first Provision has loaded a roles file.
InitReload ==
    /\ MiddlewareIdle
    /\ NoCall
    /\ \E file \in DecodableFiles : heap = << UnmarshalJSON(file.contents).rd.table >>
    /\ rolesRef = 1
    /\ loader = LoaderIdle
    /\ inflight = [i \in 1..MaxCalls |-> CallIdle]

\* Provision up to the end of json.Unmarshal and the make of the map: an
\* error of os.ReadFile or json.Unmarshal is returned at once.
BeginProvision ==
    /\ loader.pc = "idle"
    /\ \E file \in RolesFiles :
          IF ~file.readable
          THEN /\ loaded' = Loaded("read error", file)
               /\ UNCHANGED <<heap, rolesRef, loader>>
          ELSE IF ~file.contents.decodes
          THEN /\ loaded' = Loaded("decode error", file)
               /\ UNCHANGED <<heap, rolesRef, loader>>
          ELSE /\ Len(heap) <= MaxReloads
               /\ LET made == makeRoleDefinitions(heap, rolesRef)
                  IN  /\ heap' = made.heap
                      /\ rolesRef' = made.roles
                      /\ loader' = [pc |-> "insert", rd |-> made.rd, file |-> <<file>>,
                                    todo |-> DOMAIN file.contents.raw]
               /\ UNCHANGED loaded
    /\ UNCHANGED <<roles, Role, phase, request, response, args, ret, pc, inflight>>

\* One turn of the loop over the decoded roles, which Go walks in any
\* order: the role's rules are parsed and stored under its name.
InsertRole ==
    /\ loader.pc = "insert"
    /\ \E roleName \in loader.todo :
          LET perms == loader.file[1].contents.raw[roleName]
              roleDef == [i \in 1..Len(perms) |-> parsePermission(perms[i])]
          IN  /\ heap' = [heap EXCEPT ![loader.rd] = MapInsert(@, roleName, roleDef)]
              /\ loader' = [loader EXCEPT !.todo = @ \ {roleName}]
    /\ UNCHANGED <<roles, Role, phase, loaded, request, response, args, ret, pc,
                   rolesRef, inflight>>

\* m.roles = rd, and Provision returns nil.
PublishRoles ==
    /\ loader.pc = "insert"
    /\ loader.todo = {}
    /\ rolesRef' = loader.rd
    /\ loaded' = Loaded("nil", loader.file[1])
    /\ loader' = LoaderIdle
    /\ UNCHANGED <<roles, Role, phase, request, response, args, ret, pc, heap, inflight>>

\* ServeHTTP is entered: its value receiver is a copy of the Middleware,
\* m.roles included; the request's role is resolved.
EnterServeHTTP(i) ==
    /\ inflight[i].pc = "idle"
    /\ \E role \in ReloadRoles :
          inflight' = [inflight EXCEPT ![i] =
                          [CallIdle EXCEPT !.pc = "lookup", !.m = rolesRef, !.role = role]]
    /\ UNCHANGED <<roles, Role, phase, loaded, request, response, args, ret, pc,
                   heap, rolesRef, loader>>

\* permissions, ok := m.roles[role]
LookupRole(i) ==
    /\ inflight[i].pc = "lookup"
    /\ LET table == heap[inflight[i].m]
       IN  inflight' = [inflight EXCEPT ![i] =
              IF inflight[i].role \in DOMAIN table
              THEN [@ EXCEPT !.pc = "scan", !.permissions = table[inflight[i].role]]
              ELSE [@ EXCEPT !.pc = "done", !.outcome = "role not found"]]
    /\ UNCHANGED <<roles, Role, phase, loaded, request, response, args, ret, pc,
                   heap, rolesRef, loader>>

\* canAccessWithPermissions(permissions, action, resource), and the return.
ScanRules(i) ==
    /\ inflight[i].pc = "scan"
    /\ inflight' = [inflight EXCEPT ![i] =
          [@ EXCEPT !.pc = "done",
                    !.outcome = IF canAccessWithPermissions(inflight[i].permissions, ReloadAction,
                                                            ReloadResource)
                                THEN "next" ELSE "access denied"]]
    /\ UNCHANGED <<roles, Role, phase, loaded, request, response, args, ret, pc,
                   heap, rolesRef, loader>>

NextReload ==
    \/ BeginProvision
    \/ InsertRole
    \/ PublishRoles
    \/ \E i \in 1..MaxCalls : EnterServeHTTP(i)
    \/ \E i \in 1..MaxCalls : LookupRole(i)
    \/ \E i \in 1..MaxCalls : ScanRules(i)

SpecReload == InitReload /\ [][NextReload]_vars

\* The outcome of a request of the given role under a table.
Decision(table, role) ==
    IF role \notin DOMAIN table THEN "role not found"
    ELSE IF canAccessWithPermissions(table[role], ReloadAction, ReloadResource)
         THEN "next" ELSE "access denied"

\* The map a call holds is a complete table, is not the one a Provision in
\* progress fills, and the call's lookup and scan were done on it.
C13_SnapshotComplete ==
    /\ heap[rolesRef] \in CompleteTables
    /\ \A i \in 1..MaxCalls :
          LET c == inflight[i]
          IN  c.pc # "idle" =>
                /\ heap[c.m] \in CompleteTables
                /\ loader.pc = "insert" => loader.rd # c.m
                /\ c.pc = "scan" => /\ c.role \in DOMAIN heap[c.m]
                                    /\ c.permissions = heap[c.m][c.role]
                /\ c.pc = "done" => c.outcome = Decision(heap[c.m], c.role)

\* A step of a call changes no map and not m.roles, and no step changes a
\* map that m.roles or a call holds.
C13_SnapshotReadOnly ==
    /\ (inflight' # inflight) => (heap' = heap /\ rolesRef' = rolesRef)
    /\ \A a \in 1..Len(heap) :
          (a = rolesRef \/ \E i \in 1..MaxCalls : inflight[i].pc # "idle" /\ inflight[i].m = a)
              => heap'[a] = heap[a]

\* C13: with decision calls running beside a reload, every call does its
\* role lookup and its rule scan on the complete old table or the complete
\* new one, never on a table that is partly populated, and the calls never
\* modify the table they read.
C13_OldOrNewSnapshot == []C13_SnapshotComplete /\ [][C13_SnapshotReadOnly]_vars

\* C13 witness: while Provision has stored some but not all roles of the
\* new table, one call has looked its role up and another has just entered.
C13_Witness ==
    /\ loader.pc = "insert"
    /\ loader.todo # {}
    /\ DOMAIN heap[loader.rd] # {}
    /\ \E i, j \in 1..MaxCalls : inflight[i].pc = "scan" /\ inflight[j].pc = "lookup"

====
